---- MODULE Spec2Model ----
(***************************************************************************)
(* The recursive encoder of src/encode.rs: serialize() builds the root     *)
(* SerializePyObject and serde drives SerializePyObject::serialize, which  *)
(* classifies the object (pyobject_to_obtype) and either writes a scalar,  *)
(* descends into a container, or calls the default hook.                   *)
(*                                                                         *)
(* A call of SerializePyObject::serialize is a record                      *)
(*   [ptr, default_calls, recursion]; the calls that are suspended in a    *)
(* container loop or that wait for the hook's replacement are the frames   *)
(* of `stack`.  The object graph and the hook are the call's input.        *)
(***************************************************************************)
EXTENDS Integers, Sequences, FiniteSets, TLC

VARIABLES
    input,      \* the object graph, the default hook and opts of this call
    cur,        \* the SerializePyObject about to be serialized, or NONE
    ret,        \* the Result the last finished serialize returned, or NONE
    stack,      \* suspended serialize calls, outermost first
    buf,        \* serializer calls written so far (the Vec<u8> of serialize)
    result,     \* what the top-level serialize() returned
    visits,     \* number of SerializePyObject::serialize calls started
    hookCalls   \* number of PyObject_CallFunctionObjArgs(default, ..) calls

vars == <<input, cur, ret, stack, buf, result, visits, hookCalls>>

\* no call pending / nothing returned yet
NONE == [st |-> "none"]

-----------------------------------------------------------------------------
(* Bounds of the model *)

\* frames the native stack holds before the process dies of stack exhaustion
MaxStack == 600

\* longest chain of nested containers
MaxNest == 257

\* longest chain of objects the hook replaces one by the next
MaxChain == 257

\* items of the widest list
Wide == 300

-----------------------------------------------------------------------------
(* Constants of encode.rs *)

RECURSION_LIMIT == 255

STRICT_INTEGER == 1

SERIALIZE_DATACLASS == 16

SERIALIZE_UUID == 32

U8 == 2^8

(* i64 values are kept as three limbs <<a, b, c>> = a*2^42 + b*2^21 + c,   *)
(* a in -2^21 .. 2^21-1 and b, c in 0 .. 2^21-1, compared as the machine   *)
(* compares two i64.                                                       *)
Limb == 2^21

I64Lt(x, y) ==
    \/ x[1] < y[1]
    \/ x[1] = y[1] /\ x[2] < y[2]
    \/ x[1] = y[1] /\ x[2] = y[2] /\ x[3] < y[3]

I64Gt(x, y) == I64Lt(y, x)

\* -9007199254740991 = -2^53 + 1
STRICT_INT_MIN == <<-2048, 0, 1>>

\* 9007199254740991 = 2^53 - 1
STRICT_INT_MAX == <<2047, Limb - 1, Limb - 1>>

\* x & y on u8
RECURSIVE BitAnd(_, _)
BitAnd(x, y) ==
    IF x = 0 \/ y = 0 THEN 0
    ELSE (x % 2) * (y % 2) + 2 * BitAnd(x \div 2, y \div 2)

HasOpt(opts, flag) == BitAnd(opts, flag) = flag

-----------------------------------------------------------------------------
(* The host's objects.  An object is named by an integer ptr:              *)
(*   0 .. n-1  the nodes of a chain, node i holding (or, for a node the    *)
(*             hook replaces, being replaced by) node i+1;                 *)
(*   n         the leaf at the end of the chain;                           *)
(*   -1        the item object, which fills a container's other slots;     *)
(*   -2        the str "X" the hook returns for a leaf or an item.         *)

BuiltinTypes ==
    {"STR", "INT", "LIST", "DICT", "BOOL", "NONE", "FLOAT", "TUPLE",
     "DATETIME", "DATE", "TIME"}

TypeIds == BuiltinTypes \cup {"UUID", "OTHER"}

ITEM == 0 - 1

XSTR == 0 - 2

Succ(p) == IF input.cyc /\ p = input.n - 1 THEN 0 ELSE p + 1

\* the type identity of node p of the chain of input i
NodeType(i, p) ==
    IF p = i.n - 1 THEN i.last ELSE IF p % 2 = 0 THEN i.even ELSE i.odd

\* (*obj).ob_type
ObTypeOf(p) ==
    CASE p = XSTR -> "STR"
      [] p = ITEM -> input.item.type
      [] p = input.n -> input.leaf.type
      [] OTHER -> NodeType(input, p)

\* PyObject_HasAttr(obj, DATACLASS_FIELDS_STR) == 1
HasFields(p) ==
    CASE p = XSTR -> FALSE
      [] p = ITEM -> input.item.fields
      [] p = input.n -> input.leaf.fields
      [] OTHER -> input.nodeFields

\* the object's accessor fails: a str that is not valid UTF-8, an int beyond
\* 64 bits, a datetime with an unsupported tzinfo, a time with tzinfo
Flawed(p) ==
    CASE p = XSTR -> FALSE
      [] p = ITEM -> input.item.flaw
      [] p = input.n -> input.leaf.flaw
      [] OTHER -> FALSE

\* PyLong_AsLongLong of an int that fits
LongLongOf(p) == IF p = input.n THEN input.leaf.val ELSE <<0, 0, 1>>

\* (*ob_type).tp_name
TpName(p) ==
    LET t == ObTypeOf(p) IN
    IF t # "OTHER" THEN t
    ELSE CASE p = ITEM -> "Item"
           [] p = input.n -> "Leaf"
           [] OTHER -> "Node"

\* the values a container holds, in order (for a DATACLASS: of its fields)
Items(p) ==
    IF p \in 0 .. input.n - 1
    THEN [i \in 1 .. input.pre |-> ITEM] \o <<Succ(p)>>
            \o [i \in 1 .. input.post |-> ITEM]
    ELSE <<>>

\* the key PyDict_Next yields with the i-th value: "ok", "nonstr" (not a
\* str) or "invalid" (a str read_utf8_from_str rejects)
KeyOf(p, i) == IF Items(p)[i] = ITEM THEN "ok" ELSE input.key

\* what default(obj) does: returns an object, raises, or returns NULL with
\* no exception set
DefaultOf(p) ==
    CASE p \in 0 .. input.n - 1 -> [kind |-> "obj", ptr |-> Succ(p)]
      [] p = ITEM -> IF input.item.dflt = "str"
                     THEN [kind |-> "obj", ptr |-> XSTR]
                     ELSE [kind |-> input.item.dflt, ptr |-> XSTR]
      [] OTHER -> IF input.leaf.dflt = "str"
                  THEN [kind |-> "obj", ptr |-> XSTR]
                  ELSE [kind |-> input.leaf.dflt, ptr |-> XSTR]

-----------------------------------------------------------------------------
(* pyobject_to_obtype *)

pyobject_to_obtype_UuidUngated(obj, opts) ==
    LET ob_type == ObTypeOf(obj) IN
    IF ob_type \in BuiltinTypes THEN ob_type
    ELSE IF ob_type = "UUID" THEN "UUID"
    ELSE IF HasOpt(opts, SERIALIZE_DATACLASS) /\ HasFields(obj) THEN "DATACLASS"
    ELSE "UNKNOWN"

pyobject_to_obtype(obj, opts) ==
    LET ob_type == ObTypeOf(obj) IN
    IF ob_type = "STR" THEN "STR"
    ELSE IF ob_type = "INT" THEN "INT"
    ELSE IF ob_type = "LIST" THEN "LIST"
    ELSE IF ob_type = "DICT" THEN "DICT"
    ELSE IF ob_type = "BOOL" THEN "BOOL"
    ELSE IF ob_type = "NONE" THEN "NONE"
    ELSE IF ob_type = "FLOAT" THEN "FLOAT"
    ELSE IF ob_type = "TUPLE" THEN "TUPLE"
    ELSE IF ob_type = "DATETIME" THEN "DATETIME"
    ELSE IF ob_type = "DATE" THEN "DATE"
    ELSE IF ob_type = "TIME" THEN "TIME"
    ELSE IF ob_type = "UUID" /\ HasOpt(opts, SERIALIZE_UUID) THEN "UUID"
    ELSE IF HasOpt(opts, SERIALIZE_DATACLASS) /\ HasFields(obj) THEN "DATACLASS"
    ELSE "UNKNOWN"

-----------------------------------------------------------------------------
(* Results of SerializePyObject::serialize *)

OK == [st |-> "ok"]

\* err!(msg), with the type name the message is formatted with
Err(msg, name) == [st |-> "err", msg |-> msg, name |-> name]

IsErr(r) == r.st = "err"

INVALID_STR == "INVALID_STR"

RECURSION_LIMIT_REACHED == "RECURSION_LIMIT_REACHED"

INT_64 == "Integer exceeds 64-bit range"

INT_53 == "Integer exceeds 53-bit range"

TZ_LIBRARY == "datetime's timezone library is not supported"

TIME_TZINFO == "datetime.time must not have tzinfo set"

KEY_NOT_STR == "Dict key must be str"

DEFAULT_LIMIT == "default serializer exceeds recursion limit"

DEFAULT_RAISED == "Type raised exception in default function: "

NOT_SERIALIZABLE == "Type is not JSON serializable: "

-----------------------------------------------------------------------------
(* Pieces of SerializePyObject::serialize *)

RecursionLimitReached_OffByOne(self) == self.recursion >= RECURSION_LIMIT - 1

\* self.recursion == RECURSION_LIMIT
RecursionLimitReached(self) == self.recursion = RECURSION_LIMIT

DefaultLimitReached_Late(self) == self.default_calls > RECURSION_LIMIT

\* self.default_calls == RECURSION_LIMIT
DefaultLimitReached(self) == self.default_calls = RECURSION_LIMIT

StrictOutOfRange_Inclusive(val) ==
    ~I64Lt(val, STRICT_INT_MAX) \/ ~I64Gt(val, STRICT_INT_MIN)

\* val > STRICT_INT_MAX || val < STRICT_INT_MIN
StrictOutOfRange(val) == I64Gt(val, STRICT_INT_MAX) \/ I64Lt(val, STRICT_INT_MIN)

ChildCall_GlobalCount(self, elem, recursion) ==
    [ptr |-> elem, default_calls |-> hookCalls, recursion |-> recursion]

\* SerializePyObject { ptr: elem, default_calls: self.default_calls,
\*                     recursion: self.recursion + 1 }
ChildCall(self, elem, recursion) ==
    [ptr |-> elem, default_calls |-> self.default_calls, recursion |-> recursion]

DefaultCall_Deeper(self, default_obj) ==
    [ptr |-> default_obj, default_calls |-> self.default_calls + 1,
     recursion |-> self.recursion + 1]

\* SerializePyObject { ptr: default_obj, default_calls: self.default_calls + 1,
\*                     recursion: self.recursion }
DefaultCall(self, default_obj) ==
    [ptr |-> default_obj, default_calls |-> self.default_calls + 1,
     recursion |-> self.recursion]

DefaultFailure_AlwaysRaised(raised, name) == Err(DEFAULT_RAISED, name)

\* the error of a default call that returned NULL: PyErr_Occurred or not
DefaultFailure(raised, name) ==
    IF raised THEN Err(DEFAULT_RAISED, name) ELSE Err(NOT_SERIALIZABLE, name)

Propagates_Never(r) == FALSE

\* the `?` after serialize_element / serialize_value
Propagates(r) == IsErr(r)

Frame(self, arm) ==
    [ptr |-> self.ptr, default_calls |-> self.default_calls,
     recursion |-> self.recursion, arm |-> arm, pos |-> 0]

Top == stack[Len(stack)]

Pop == SubSeq(stack, 1, Len(stack) - 1)

Advance == [stack EXCEPT ![Len(stack)].pos = @ + 1]

Running == result.kind = "pending"

Visiting(arm) ==
    /\ Running
    /\ cur # NONE
    /\ Len(stack) < MaxStack
    /\ pyobject_to_obtype(cur.ptr, input.opts) = arm

Looping(arm) ==
    /\ Running
    /\ cur = NONE
    /\ stack # <<>>
    /\ Top.arm = arm

\* a scalar arm: either err!(msg) or one serializer call, then return
Scalar(failed, msg, token) ==
    /\ visits' = visits + 1
    /\ cur' = NONE
    /\ IF failed
       THEN ret' = Err(msg, "") /\ buf' = buf
       ELSE ret' = OK /\ buf' = Append(buf, token)
    /\ UNCHANGED <<input, stack, result, hookCalls>>

-----------------------------------------------------------------------------
(* The arms of SerializePyObject::serialize *)

SerStr ==
    /\ Visiting("STR")
    /\ Scalar(Flawed(cur.ptr), INVALID_STR, <<"str", cur.ptr>>)

SerInt ==
    /\ Visiting("INT")
    /\ LET val == LongLongOf(cur.ptr) IN
       IF Flawed(cur.ptr)
       THEN Scalar(TRUE, INT_64, <<>>)
       ELSE Scalar(HasOpt(input.opts, STRICT_INTEGER) /\ StrictOutOfRange(val),
                   INT_53, <<"i64", val>>)

SerNone ==
    /\ Visiting("NONE")
    /\ Scalar(FALSE, "", <<"unit">>)

SerFloat ==
    /\ Visiting("FLOAT")
    /\ Scalar(FALSE, "", <<"f64", cur.ptr>>)

SerBool ==
    /\ Visiting("BOOL")
    /\ Scalar(FALSE, "", <<"bool", cur.ptr>>)

SerDatetime ==
    /\ Visiting("DATETIME")
    /\ Scalar(Flawed(cur.ptr), TZ_LIBRARY, <<"str", cur.ptr>>)

SerDate ==
    /\ Visiting("DATE")
    /\ Scalar(FALSE, "", <<"str", cur.ptr>>)

SerTime ==
    /\ Visiting("TIME")
    /\ Scalar(Flawed(cur.ptr), TIME_TZINFO, <<"str", cur.ptr>>)

SerUuid ==
    /\ Visiting("UUID")
    /\ Scalar(FALSE, "", <<"str", cur.ptr>>)

\* entry of the DICT, LIST and DATACLASS arms: the limit check, then
\* serialize_map / serialize_seq
Enter(arm, token) ==
    /\ visits' = visits + 1
    /\ cur' = NONE
    /\ IF RecursionLimitReached(cur)
       THEN /\ ret' = Err(RECURSION_LIMIT_REACHED, "")
            /\ UNCHANGED <<stack, buf>>
       ELSE /\ ret' = NONE
            /\ stack' = Append(stack, Frame(cur, arm))
            /\ buf' = Append(buf, token)
    /\ UNCHANGED <<input, result, hookCalls>>

DictEnter ==
    /\ Visiting("DICT")
    /\ Enter("DICT", <<"map">>)

ListEnter ==
    /\ Visiting("LIST")
    /\ Enter("LIST", <<"seq">>)

DataclassEnter ==
    /\ Visiting("DATACLASS")
    /\ Enter("DATACLASS", <<"map">>)

\* entry of the TUPLE arm: serialize_seq, with no limit check
TupleEnter ==
    /\ Visiting("TUPLE")
    /\ visits' = visits + 1
    /\ cur' = NONE
    /\ ret' = NONE
    /\ stack' = Append(stack, Frame(cur, "TUPLE"))
    /\ buf' = Append(buf, <<"seq">>)
    /\ UNCHANGED <<input, result, hookCalls>>

\* the frame on top returns r
Leave(r) ==
    /\ stack' = Pop
    /\ ret' = r
    /\ cur' = NONE

\* the frame on top serializes its next value
Descend(call) ==
    /\ stack' = Advance
    /\ ret' = NONE
    /\ cur' = call

\* one turn of the loop of the LIST arm
ListNext ==
    /\ Looping("LIST")
    /\ IF Propagates(ret)
       THEN Leave(ret) /\ buf' = buf
       ELSE IF Top.pos < Len(Items(Top.ptr))
       THEN /\ Descend(ChildCall(Top, Items(Top.ptr)[Top.pos + 1], Top.recursion + 1))
            /\ buf' = buf
       ELSE Leave(OK) /\ buf' = Append(buf, <<"end_seq">>)
    /\ UNCHANGED <<input, result, visits, hookCalls>>

\* one turn of the loop of the TUPLE arm; self.recursion + 1 overflows u8
\* at 255: a build with overflow checks panics, any other build wraps to 0
TupleNext ==
    /\ Looping("TUPLE")
    /\ \/ /\ Propagates(ret)
          /\ Leave(ret)
          /\ UNCHANGED <<buf, result>>
       \/ /\ ~Propagates(ret)
          /\ Top.pos < Len(Items(Top.ptr))
          /\ Top.recursion + 1 < U8
          /\ Descend(ChildCall(Top, Items(Top.ptr)[Top.pos + 1], Top.recursion + 1))
          /\ UNCHANGED <<buf, result>>
       \/ /\ ~Propagates(ret)
          /\ Top.pos < Len(Items(Top.ptr))
          /\ Top.recursion + 1 >= U8
          /\ Descend(ChildCall(Top, Items(Top.ptr)[Top.pos + 1],
                               (Top.recursion + 1) % U8))
          /\ UNCHANGED <<buf, result>>
       \/ /\ ~Propagates(ret)
          /\ Top.pos < Len(Items(Top.ptr))
          /\ Top.recursion + 1 >= U8
          /\ result' = [kind |-> "panic"]
          /\ UNCHANGED <<stack, cur, ret, buf>>
       \/ /\ ~Propagates(ret)
          /\ Top.pos >= Len(Items(Top.ptr))
          /\ Leave(OK)
          /\ buf' = Append(buf, <<"end_seq">>)
          /\ UNCHANGED result
    /\ UNCHANGED <<input, visits, hookCalls>>

\* one turn of the loop of the DICT arm
DictNext ==
    /\ Looping("DICT")
    /\ IF Propagates(ret)
       THEN Leave(ret) /\ buf' = buf
       ELSE IF Top.pos < Len(Items(Top.ptr))
       THEN LET key == KeyOf(Top.ptr, Top.pos + 1) IN
            IF key = "nonstr"
            THEN Leave(Err(KEY_NOT_STR, "")) /\ buf' = buf
            ELSE IF key = "invalid"
            THEN Leave(Err(INVALID_STR, "")) /\ buf' = buf
            ELSE /\ Descend(ChildCall(Top, Items(Top.ptr)[Top.pos + 1],
                                      Top.recursion + 1))
                 /\ buf' = Append(buf, <<"key", Top.pos + 1>>)
       ELSE Leave(OK) /\ buf' = Append(buf, <<"end_map">>)
    /\ UNCHANGED <<input, result, visits, hookCalls>>

\* one turn of the loop of the DATACLASS arm (field names are str objects)
DataclassNext ==
    /\ Looping("DATACLASS")
    /\ IF Propagates(ret)
       THEN Leave(ret) /\ buf' = buf
       ELSE IF Top.pos < Len(Items(Top.ptr))
       THEN IF KeyOf(Top.ptr, Top.pos + 1) = "invalid"
            THEN Leave(Err(INVALID_STR, "")) /\ buf' = buf
            ELSE /\ Descend(ChildCall(Top, Items(Top.ptr)[Top.pos + 1],
                                      Top.recursion + 1))
                 /\ buf' = Append(buf, <<"key", Top.pos + 1>>)
       ELSE Leave(OK) /\ buf' = Append(buf, <<"end_map">>)
    /\ UNCHANGED <<input, result, visits, hookCalls>>

\* the UNKNOWN arm up to the call of default and its failures
SerUnknown ==
    /\ Visiting("UNKNOWN")
    /\ visits' = visits + 1
    /\ \/ /\ ~input.hook
          /\ cur' = NONE
          /\ ret' = Err(NOT_SERIALIZABLE, TpName(cur.ptr))
          /\ UNCHANGED <<stack, hookCalls>>
       \/ /\ input.hook
          /\ DefaultLimitReached(cur)
          /\ cur' = NONE
          /\ ret' = Err(DEFAULT_LIMIT, "")
          /\ UNCHANGED <<stack, hookCalls>>
       \/ /\ input.hook
          /\ ~DefaultLimitReached(cur)
          /\ DefaultOf(cur.ptr).kind = "obj"
          /\ hookCalls' = hookCalls + 1
          /\ stack' = Append(stack, Frame(cur, "UNKNOWN"))
          /\ cur' = DefaultCall(cur, DefaultOf(cur.ptr).ptr)
          /\ ret' = NONE
       \/ /\ input.hook
          /\ ~DefaultLimitReached(cur)
          /\ DefaultOf(cur.ptr).kind # "obj"
          /\ hookCalls' = hookCalls + 1
          /\ cur' = NONE
          /\ ret' = DefaultFailure(DefaultOf(cur.ptr).kind = "raise", TpName(cur.ptr))
          /\ UNCHANGED stack
    /\ UNCHANGED <<input, buf, result>>

\* the UNKNOWN arm after the replacement was serialized: Py_DECREF, res
UnknownReturn ==
    /\ Looping("UNKNOWN")
    /\ ret # NONE
    /\ Leave(ret)
    /\ UNCHANGED <<input, buf, result, visits, hookCalls>>

\* the recursion outgrows the native stack
StackExhausted ==
    /\ Running
    /\ cur # NONE
    /\ Len(stack) >= MaxStack
    /\ result' = [kind |-> "crash"]
    /\ UNCHANGED <<input, cur, ret, stack, buf, visits, hookCalls>>

\* serialize(): the match on what serde_json::to_writer returned
Finish ==
    /\ Running
    /\ cur = NONE
    /\ stack = <<>>
    /\ ret # NONE
    /\ result' = IF IsErr(ret)
                 THEN [kind |-> "err", msg |-> ret.msg, name |-> ret.name]
                 ELSE [kind |-> "bytes", buf |-> buf]
    /\ UNCHANGED <<input, cur, ret, stack, buf, visits, hookCalls>>

-----------------------------------------------------------------------------
(* The inputs of a call *)

One == <<0, 0, 1>>

Obj(type, fields, flaw, val, dflt) ==
    [type |-> type, fields |-> fields, flaw |-> flaw, val |-> val, dflt |-> dflt]

IntObj == Obj("INT", FALSE, FALSE, One, "null")

\* a single int, nothing else
Plain ==
    [n |-> 0, even |-> "LIST", odd |-> "LIST", last |-> "LIST",
     nodeFields |-> FALSE, cyc |-> FALSE, pre |-> 0, post |-> 0,
     item |-> IntObj, leaf |-> IntObj, key |-> "ok", hook |-> FALSE, opts |-> 0]

\* one object of every type identity, under every option mask
ClassifyInputs ==
    {[Plain EXCEPT !.leaf = Obj(t, f, FALSE, One, "null"), !.opts = o] :
        t \in TypeIds, f \in BOOLEAN, o \in 0 .. U8 - 1}

IntVals ==
    {<<a, b, c>> :
        a \in {-Limb, -2049, -2048, -2047, -1, 0, 2046, 2047, 2048, Limb - 1},
        b \in {0, Limb - 1},
        c \in {0, 1, Limb - 1}}

\* one int, in and out of the strict range, with and without STRICT_INTEGER
IntInputs ==
    {[Plain EXCEPT !.leaf = Obj("INT", FALSE, big, v, "null"), !.opts = o] :
        v \in IntVals, big \in BOOLEAN,
        o \in {0, STRICT_INTEGER, SERIALIZE_UUID, SERIALIZE_UUID + STRICT_INTEGER}}

Dflts == {"str", "raise", "null"}

\* one object whose accessor may fail, with and without a hook
ScalarInputs ==
    {[Plain EXCEPT !.leaf = Obj(t, TRUE, flaw, One, d), !.hook = h, !.opts = o] :
        t \in TypeIds, flaw \in BOOLEAN, d \in Dflts, h \in BOOLEAN,
        o \in {0, SERIALIZE_DATACLASS + SERIALIZE_UUID}}

NestLens == (1 .. 3) \cup ((MaxNest - 3) .. MaxNest)

\* <<even, odd, last>> type identities of the nodes of a deep chain; "OTHER"
\* nodes carry the fields attribute and are DATACLASS under the option
NestKinds ==
    {<<"LIST", "LIST", "LIST">>, <<"DICT", "DICT", "DICT">>,
     <<"LIST", "DICT", "DICT">>, <<"OTHER", "OTHER", "OTHER">>,
     <<"LIST", "LIST", "TUPLE">>, <<"LIST", "LIST", "OTHER">>,
     <<"DICT", "DICT", "TUPLE">>, <<"LIST", "TUPLE", "TUPLE">>,
     <<"TUPLE", "TUPLE", "TUPLE">>, <<"TUPLE", "TUPLE", "LIST">>}

NestLeaves == {IntObj, Obj("TUPLE", FALSE, FALSE, One, "null")}

\* containers nested up to and beyond RECURSION_LIMIT, the innermost holding
\* a scalar or an empty tuple, or (cyc) the outermost again
NestInputs ==
    {[Plain EXCEPT !.n = n, !.even = k[1], !.odd = k[2], !.last = k[3],
                   !.nodeFields = TRUE, !.cyc = c, !.leaf = l,
                   !.opts = SERIALIZE_DATACLASS] :
        n \in NestLens, k \in NestKinds, c \in BOOLEAN, l \in NestLeaves}

ChainLens == (0 .. 2) \cup ((MaxChain - 3) .. MaxChain)

ChainLeaves ==
    {Obj("STR", FALSE, FALSE, One, "null"), Obj("LIST", FALSE, FALSE, One, "null")}
        \cup {Obj("OTHER", FALSE, FALSE, One, d) : d \in Dflts}

\* objects the hook replaces one by the next, up to and beyond
\* RECURSION_LIMIT, ending in a leaf or (cyc) never ending
ChainInputs ==
    {[Plain EXCEPT !.n = n, !.even = "OTHER", !.odd = "OTHER", !.last = "OTHER",
                   !.cyc = c, !.leaf = l, !.hook = h] :
        n \in ChainLens, c \in BOOLEAN, l \in ChainLeaves, h \in BOOLEAN}

NodeTypes == {"LIST", "DICT", "TUPLE", "OTHER"}

SmallObjs ==
    {IntObj, Obj("STR", FALSE, TRUE, One, "null"),
     Obj("OTHER", FALSE, FALSE, One, "str"),
     Obj("OTHER", FALSE, FALSE, One, "raise"),
     Obj("OTHER", FALSE, FALSE, One, "null")}

\* small graphs of every mix of containers, hook-replaced nodes and items
SmallInputs ==
    {[Plain EXCEPT !.n = n, !.even = e, !.odd = "LIST", !.last = l,
                   !.nodeFields = TRUE, !.pre = pp[1], !.post = pp[2],
                   !.item = it, !.leaf = lf, !.key = k, !.hook = h, !.opts = o] :
        n \in 1 .. 2, e \in NodeTypes, l \in NodeTypes,
        pp \in (0 .. 1) \X (0 .. 1), it \in SmallObjs, lf \in SmallObjs,
        k \in {"ok", "nonstr", "invalid"}, h \in BOOLEAN,
        o \in {0, SERIALIZE_DATACLASS}}

\* a list of Wide objects the hook replaces by a str, directly or inside an
\* object the hook replaces by that list
WideInputs ==
    {[Plain EXCEPT !.n = n, !.even = "OTHER", !.last = "LIST", !.pre = Wide,
                   !.item = Obj("OTHER", FALSE, FALSE, One, "str"),
                   !.hook = TRUE] : n \in 1 .. 2}

Inputs ==
    ClassifyInputs \cup IntInputs \cup ScalarInputs \cup NestInputs
        \cup ChainInputs \cup SmallInputs \cup WideInputs

\* a DATACLASS's field names are str objects; a cycle needs a node, and one
\* that is not a tuple: a tuple cannot be made to hold itself
WellFormed(i) ==
    /\ i.cyc => \E p \in 0 .. i.n - 1 : NodeType(i, p) # "TUPLE"
    /\ i.key = "nonstr" =>
          ~(HasOpt(i.opts, SERIALIZE_DATACLASS) /\ i.nodeFields
              /\ "OTHER" \in {i.even, i.last})

-----------------------------------------------------------------------------
(* serialize(): buf is empty and the root is serialized with default_calls 0 *)
(* and recursion 0                                                          *)

RootCall == [ptr |-> 0, default_calls |-> 0, recursion |-> 0]

Init ==
    /\ input \in {i \in Inputs : WellFormed(i)}
    /\ cur = RootCall
    /\ ret = NONE
    /\ stack = <<>>
    /\ buf = <<>>
    /\ result = [kind |-> "pending"]
    /\ visits = 0
    /\ hookCalls = 0

Next ==
    \/ SerStr
    \/ SerInt
    \/ SerNone
    \/ SerFloat
    \/ SerBool
    \/ SerDatetime
    \/ SerDate
    \/ SerTime
    \/ SerUuid
    \/ DictEnter
    \/ ListEnter
    \/ TupleEnter
    \/ DataclassEnter
    \/ DictNext
    \/ ListNext
    \/ TupleNext
    \/ DataclassNext
    \/ SerUnknown
    \/ UnknownReturn
    \/ StackExhausted
    \/ Finish

Spec == Init /\ [][Next]_vars

-----------------------------------------------------------------------------
(* Properties *)

Done == result.kind # "pending"

Containers == {"LIST", "DICT", "TUPLE", "DATACLASS"}

\* the kind the object at ptr p is serialized as
KindOf(p) == pyobject_to_obtype(p, input.opts)

\* number of calls of the hook made for the values on the path to cur
HookFramesOnPath == Cardinality({i \in DOMAIN stack : stack[i].arm = "UNKNOWN"})

\* n lists or dicts nested one in another, the innermost holding one int
IsListMapChain ==
    /\ input.n >= 1
    /\ {input.even, input.odd, input.last} \subseteq {"LIST", "DICT"}
    /\ ~input.cyc
    /\ input.pre = 0 /\ input.post = 0
    /\ input.leaf.type = "INT" /\ ~input.leaf.flaw
    /\ input.key = "ok"

\* C1: N lists or maps nested one in another around a scalar encode for
\* every N <= 255 and fail with RecursionLimitReached for N >= 256; the
\* rejected list or map is the 256th container visited, so exactly 255
\* containers enclose it, and no list or map enclosed by fewer is rejected.
C1_NestingBoundary ==
    IsListMapChain =>
        /\ cur # NONE => cur.recursion = Len(stack)
        /\ IsErr(ret) =>
              ret.msg = RECURSION_LIMIT_REACHED /\ visits = 256 /\ input.n >= 256
        /\ Done /\ input.n <= 255 => result.kind = "bytes" /\ visits = input.n + 1
        /\ Done /\ input.n >= 256 =>
              result = [kind |-> "err", msg |-> RECURSION_LIMIT_REACHED, name |-> ""]

C1_Witness ==
    /\ IsListMapChain
    /\ input.n = 255
    /\ input.even # input.odd
    /\ result.kind = "bytes"

\* C2: no container of any of the four kinds is entered with recursion 255
\* (it is rejected with RecursionLimitReached before any value it holds is
\* visited), and recursion + 1 is never computed from 255.
C2_EveryContainerRejectedAt255 ==
    /\ \A i \in DOMAIN stack :
          stack[i].arm \in Containers => stack[i].recursion # 255
    /\ result.kind # "panic"

\* -(2^53)+1 <= v <= (2^53)-1, on the limbs of v
InStrictRange(v) ==
    \/ v[1] \in -2047 .. 2047
    \/ v[1] = -2048 /\ (v[2] > 0 \/ v[3] >= 1)

IsSingleInt == input.n = 0 /\ input.leaf.type = "INT" /\ ~input.leaf.flaw

\* C3: under STRICT_INTEGER an i64 v encodes iff -(2^53)+1 <= v <= 2^53-1
\* and otherwise fails with the 53-bit range error; without STRICT_INTEGER
\* every i64 encodes.
C3_StrictIntegerRange ==
    Done /\ IsSingleInt =>
        LET v == input.leaf.val
            strict == input.opts % 2 = 1
        IN  /\ strict /\ ~InStrictRange(v) =>
                  result = [kind |-> "err", msg |-> INT_53, name |-> ""]
            /\ ~strict \/ InStrictRange(v) =>
                  result = [kind |-> "bytes", buf |-> <<<<"i64", v>>>>]
            /\ v \in {<<2047, Limb - 1, Limb - 1>>, <<-2048, 0, 1>>} =>
                  result.kind = "bytes"
            /\ v \in {<<2048, 0, 0>>, <<-2048, 0, 0>>} =>
                  (result.kind = "bytes") = ~strict

C3_Witness ==
    /\ IsSingleInt
    /\ input.leaf.val = <<2048, 0, 0>>
    /\ input.opts = 1
    /\ result.kind = "err"

\* objects of unrecognized type, each replaced by the hook with the next
IsHookChain ==
    /\ {input.even, input.odd, input.last} = {"OTHER"}
    /\ input.opts = 0
    /\ input.hook
    /\ input.pre = 0 /\ input.post = 0

\* hook calls a chain needs before a recognized value is reached
ChainNeeds ==
    IF input.leaf.type = "OTHER" THEN input.n + 1 ELSE input.n

\* C4: a chain of hook replacements is followed for at most 255 calls of the
\* hook on one path: a value that needs 255 calls or fewer encodes, one that
\* needs 256 or more fails with the default recursion limit error after
\* exactly 255 calls, and so does a hook that never returns a recognized
\* value.
C4_FallbackChainBound ==
    /\ cur # NONE => cur.default_calls <= 255
    /\ Done /\ IsHookChain =>
          /\ hookCalls <= 255
          /\ ~input.cyc /\ ChainNeeds <= 255
                  /\ (input.leaf.type = "OTHER" => input.leaf.dflt = "str") =>
                result.kind = "bytes" /\ hookCalls = ChainNeeds
          /\ input.cyc \/ ChainNeeds >= 256 =>
                /\ result = [kind |-> "err", msg |-> DEFAULT_LIMIT, name |-> ""]
                /\ hookCalls = 255

C4_Witness ==
    /\ IsHookChain
    /\ ~input.cyc
    /\ input.n = 255
    /\ input.leaf.type = "STR"
    /\ result.kind = "bytes"
    /\ hookCalls = 255

\* the step that starts serializing cur, an UNKNOWN value
VisitsUnknown == cur # NONE /\ KindOf(cur.ptr) = "UNKNOWN" /\ visits' = visits + 1

\* the step in which the visit of an UNKNOWN value returns what the
\* serialization of its replacement returned
ReturnsFromUnknown ==
    /\ cur = NONE /\ stack # <<>> /\ Top.arm = "UNKNOWN"
    /\ stack' # stack

UnknownWithoutHook ==
    VisitsUnknown /\ ~input.hook =>
        /\ ret' = Err(NOT_SERIALIZABLE, TpName(cur.ptr))
        /\ hookCalls' = hookCalls
        /\ stack' = stack /\ buf' = buf

ReplacementSerialized ==
    /\ hookCalls' = hookCalls + 1
    /\ cur' = [ptr |-> DefaultOf(cur.ptr).ptr,
               default_calls |-> cur.default_calls + 1,
               recursion |-> cur.recursion]
    /\ Len(stack') = Len(stack) + 1
    /\ buf' = buf

OutcomeIsReplacements ==
    ReturnsFromUnknown =>
        ret' = ret /\ buf' = buf /\ hookCalls' = hookCalls /\ visits' = visits

\* C5 as stated: an UNKNOWN value with no hook fails with the not
\* serializable error naming its type and calls nothing; with a hook that
\* returns a replacement R the hook is called once for the visit and the
\* visit's outcome is that of serializing R with the same recursion and
\* default_calls + 1.
C5_AsStated ==
    [][/\ UnknownWithoutHook
       /\ VisitsUnknown /\ input.hook /\ DefaultOf(cur.ptr).kind = "obj" =>
              ReplacementSerialized
       /\ OutcomeIsReplacements]_vars

\* C5 amended: the same, for a visit with default_calls < 255; a visit with
\* default_calls = 255 and a hook fails with the default recursion limit
\* error and calls nothing.
C5_FallbackOutcome ==
    [][/\ UnknownWithoutHook
       /\ VisitsUnknown /\ input.hook /\ DefaultOf(cur.ptr).kind = "obj"
              /\ cur.default_calls < 255 =>
              ReplacementSerialized
       /\ VisitsUnknown /\ input.hook /\ cur.default_calls = 255 =>
              /\ ret' = Err(DEFAULT_LIMIT, "")
              /\ hookCalls' = hookCalls
              /\ stack' = stack /\ buf' = buf
       /\ OutcomeIsReplacements]_vars

C5_Witness ==
    /\ input.n = 0
    /\ input.leaf.type = "OTHER" /\ input.leaf.dflt = "str"
    /\ input.hook
    /\ hookCalls = 1
    /\ result = [kind |-> "bytes", buf |-> <<<<"str", XSTR>>>>]

\* the step in which the hook is called and returns no replacement
HookFails ==
    /\ VisitsUnknown
    /\ hookCalls' = hookCalls + 1
    /\ DefaultOf(cur.ptr).kind # "obj"

\* C6 as stated: when the hook is called and returns no replacement, whether
\* it raises or fails without raising, the visit fails with the error of a
\* raising hook, naming the value's type.
C6_AsStated ==
    [][HookFails => ret' = Err(DEFAULT_RAISED, TpName(cur.ptr))]_vars

\* C6 amended: when the hook is called and raises, the visit fails with the
\* error of a raising hook naming the value's type; when it returns no
\* replacement without raising, the visit fails with the not serializable
\* error naming the value's type.
C6_HookFailure ==
    [][HookFails =>
          /\ DefaultOf(cur.ptr).kind = "raise" =>
                ret' = Err(DEFAULT_RAISED, TpName(cur.ptr))
          /\ DefaultOf(cur.ptr).kind = "null" =>
                ret' = Err(NOT_SERIALIZABLE, TpName(cur.ptr))
          /\ cur' = NONE /\ stack' = stack /\ buf' = buf]_vars

C6_Witness ==
    /\ input.hook
    /\ hookCalls = 1
    /\ stack # <<>>
    /\ ret = Err(NOT_SERIALIZABLE, "Item")

\* C7: once a visit has produced an error no further value is visited, the
\* hook is not called again, every suspended call returns that error
\* unchanged, and the top-level call returns that error and never bytes.
C7_ErrorAborts ==
    [][IsErr(ret) =>
          /\ visits' = visits
          /\ hookCalls' = hookCalls
          /\ \/ /\ stack # <<>>
                /\ stack' = Pop
                /\ ret' = ret
                /\ cur' = NONE
                /\ result' = result
             \/ /\ stack = <<>>
                /\ result' = [kind |-> "err", msg |-> ret.msg, name |-> ret.name]
                /\ ret' = ret]_vars

C7_Witness ==
    /\ IsErr(ret)
    /\ Len(stack) = 2
    /\ Top.pos < Len(Items(Top.ptr))
    /\ stack[1].pos < Len(Items(stack[1].ptr))
    /\ Len(buf) >= 3

\* every node of the cyclic chain is a container
IsContainerCycle ==
    /\ input.cyc
    /\ \A p \in 0 .. input.n - 1 : KindOf(p) \in Containers

\* C8: the call on a graph with a cycle through containers of any kind ends
\* with RecursionLimitReached.
C8_CycleEndsInRecursionLimit ==
    Done /\ IsContainerCycle =>
        result = [kind |-> "err", msg |-> RECURSION_LIMIT_REACHED, name |-> ""]

Kinds == BuiltinTypes \cup {"UUID", "DATACLASS", "UNKNOWN"}

Bit(opts, k) == (opts \div 2^k) % 2 = 1

\* C9: every value about to be serialized gets exactly one kind: a built-in
\* type identity its own kind under every option mask (a bool never INT),
\* UUID only under SERIALIZE_UUID, DATACLASS only under SERIALIZE_DATACLASS
\* with the fields attribute present, and every other combination UNKNOWN.
C9_ClassifyTotal ==
    cur # NONE =>
        LET t == ObTypeOf(cur.ptr)
            f == HasFields(cur.ptr)
            k == KindOf(cur.ptr)
        IN  /\ k \in Kinds
            /\ t \in BuiltinTypes => k = t
            /\ t = "BOOL" => k # "INT"
            /\ k = "UUID" => t = "UUID" /\ Bit(input.opts, 5)
            /\ t = "UUID" /\ Bit(input.opts, 5) => k = "UUID"
            /\ k = "DATACLASS" => Bit(input.opts, 4) /\ f
            /\ /\ t \notin BuiltinTypes
               /\ ~(t = "UUID" /\ Bit(input.opts, 5))
               /\ Bit(input.opts, 4) /\ f
               => k = "DATACLASS"
            /\ /\ t \notin BuiltinTypes
               /\ ~(t = "UUID" /\ Bit(input.opts, 5))
               /\ ~(Bit(input.opts, 4) /\ f)
               => k = "UNKNOWN"

C9_Witness ==
    /\ cur # NONE
    /\ ObTypeOf(cur.ptr) = "UUID"
    /\ HasFields(cur.ptr)
    /\ input.opts = 16 + 64
    /\ KindOf(cur.ptr) = "DATACLASS"

IsWide == input.pre = Wide

\* C10: the default_calls of the value about to be serialized is the number
\* of hook calls made for its ancestors on its path from the root, whatever
\* the number of hook calls made so far; a list of more than 255 objects
\* the hook replaces by a str encodes.
C10_DefaultCallsPerPath ==
    /\ cur # NONE => cur.default_calls = HookFramesOnPath
    /\ Done /\ IsWide =>
          result.kind = "bytes" /\ hookCalls = Wide + input.n - 1

C10_Witness ==
    /\ cur # NONE
    /\ hookCalls > 255
    /\ cur.default_calls = 1
    /\ Len(stack) = 2
    /\ KindOf(cur.ptr) = "UNKNOWN"

====
